---- MODULE Spec2Model ----
(***************************************************************************)
(* Model of the photo metadata tagger and the non-destructive operation    *)
(* pipeline: lmj/media/photos.py (Photo), lmj/photos/commands/retag.py     *)
(* (retag main) and illuminatus/metadata.py (get_timestamp, highest,       *)
(* gen_metadata_tags, gen_datetime_tags).                                  *)
(***************************************************************************)
EXTENDS Integers, Sequences, FiniteSets, TLC

VARIABLES
    ops,      \* Photo.meta['ops']: the operation list of the photo
    orient,   \* Photo.exif['Orientation']
    img,      \* result of the last Photo.get_image: primitive calls applied to the file
    log,      \* ops reported by the 'unknown image op' log line of the last render
    last,     \* the last Photo method called, with its arguments
    hist,     \* the mutator calls made so far, in call order
    ts_meta,  \* get_timestamp: the meta argument
    ts_path,  \* get_timestamp: what os.path.getmtime(path) finds
    ts_ret,   \* get_timestamp: the value returned or the exception raised
    geo_in,   \* _crop_after_rotate: width, height, angle
    geo_ret,  \* _crop_after_rotate: a, b, W, H and the box returned
    rnd_in,   \* _round_to_most_significant_digits: n and digits
    rnd_ret,  \* _round_to_most_significant_digits: value returned or exception
    dt_stamp, \* gen_datetime_tags: the stamp argument
    dt_ret,   \* gen_datetime_tags: the tags yielded, in order
    exif,     \* the metadata mapping read by read_exif_tags / gen_metadata_tags
    ex_ret,   \* the tagger called, the tags it produced, the exception raised
    userTags, \* Photo.meta['userTags'], written by Photo.create
    user_tags, \* p.meta['user_tags'], written by retag
    rt_last   \* the last of create / retag called, and the raw tags it was given

pipeVars == <<ops, orient, img, log, last, hist>>
tsVars == <<ts_meta, ts_path, ts_ret>>
geoVars == <<geo_in, geo_ret>>
rndVars == <<rnd_in, rnd_ret>>
dtVars == <<dt_stamp, dt_ret>>
exVars == <<exif, ex_ret>>
tagVars == <<userTags, user_tags, rt_last>>

vars == <<pipeVars, tsVars, geoVars, rndVars, dtVars, exVars, tagVars>>

\* No value: Python's None, and "not called yet" for a result.
None == [kind |-> "none"]

\* ---------------------------------------------------------------- bounds

\* Mutator calls explored per photo.
MaxCalls == 3

\* Tags given to one create or retag call (--add TAG ...).
MaxAdd == 2

\* ------------------------------------------------------- Photo.Ops (keys)

Autocontrast == "autocontrast"
Brightness == "brightness"
Contrast == "contrast"
Crop == "crop"
Rotate == "rotate"
Saturation == "saturation"

\* Arguments the mutators are called with.
Degrees == {10, 20, 30, -90}
Levels == {15}                             \* enhancement levels, in tenths
Boxes == {<<0, 0, 50, 50>>}                \* crop boxes, in percent
Orientations == {"none", "Rotate 90 CW", "Rotate 180", "Rotate 270 CW"}

\* Operation lists a photo record can be loaded with (Photo.__init__ parses
\* whatever the store holds, so keys outside Photo.Ops can occur).
StoredOps ==
    { <<>>,
      << [key |-> "unknown-op"] >>,
      << [key |-> "unknown-op"], [key |-> Rotate, degrees |-> 30] >>,
      << [key |-> Crop, box |-> <<0, 0, 50, 50>>], [key |-> "sharpen", level |-> 5],
         [key |-> Brightness, level |-> 15] >>,
      << [key |-> Rotate, degrees |-> 10], [key |-> "unknown-op"],
         [key |-> Rotate, degrees |-> 20] >>,
      << [key |-> "unknown-op"], [key |-> "sharpen", level |-> 5] >>,
      << [key |-> Autocontrast, cutoff |-> 2], [key |-> Saturation, level |-> 5] >> }

\* --------------------------------------------------------------- render

\* One call of an image primitive (PIL), recorded on the image it returns.
Prim(name, arg) == [prim |-> name, arg |-> arg]

KnownKeys == {Autocontrast, Brightness, Contrast, Saturation, Crop, Rotate}

\* Photo._apply_op: the image after one operation.
_apply_op(im, op) ==
    LET key == op.key IN
    IF key = Autocontrast
        THEN Append(im, Prim("autocontrast",
                             <<IF "cutoff" \in DOMAIN op THEN op.cutoff ELSE 5>>))
    ELSE IF key = Brightness THEN Append(im, Prim("brightness", <<op.level>>))
    ELSE IF key = Contrast THEN Append(im, Prim("contrast", <<op.level>>))
    ELSE IF key = Saturation THEN Append(im, Prim("color", <<op.level>>))
    ELSE IF key = Crop THEN Append(im, Prim("crop", op.box))
    ELSE IF key = Rotate
        THEN Append(Append(im, Prim("rotate", <<op.degrees>>)),
                    Prim("crop_after_rotate", <<op.degrees>>))
    ELSE im

\* The 'unknown image op' log line of Photo._apply_op.
_apply_op_log(lg, op) ==
    IF op.key \in KnownKeys THEN lg ELSE Append(lg, op)

RECURSIVE FoldOps_break(_, _)
\* Variant of the render loop that gives up at the first unrecognized key.
FoldOps_break(im, list) ==
    IF list = <<>> THEN im
    ELSE IF Head(list).key \notin KnownKeys THEN im
    ELSE FoldOps_break(_apply_op(im, Head(list)), Tail(list))

RECURSIVE FoldOps(_, _)
\* The loop of Photo.get_image: for op in self.ops: img = self._apply_op(img, op)
FoldOps(im, list) ==
    IF list = <<>> THEN im
    ELSE FoldOps(_apply_op(im, Head(list)), Tail(list))

RECURSIVE FoldLog(_, _)
FoldLog(lg, list) ==
    IF list = <<>> THEN lg
    ELSE FoldLog(_apply_op_log(lg, Head(list)), Tail(list))

\* Photo.get_image: open, optional fast resize, EXIF orientation, then the ops.
get_image(list, o, fast) ==
    LET opened == << Prim("open", <<>>) >>
        sized == IF fast THEN Append(opened, Prim("resize", <<1000>>)) ELSE opened
        r90 == IF o = "Rotate 90 CW" THEN Append(sized, Prim("rotate", <<-90>>)) ELSE sized
        r180 == IF o = "Rotate 180" THEN Append(r90, Prim("rotate", <<-180>>)) ELSE r90
        r270 == IF o = "Rotate 270 CW" THEN Append(r180, Prim("rotate", <<-270>>)) ELSE r180
    IN FoldOps(r270, list)

\* ------------------------------------------------------------- mutators

Call(name, args) == [name |-> name, args |-> args, fast |-> TRUE]

\* Variant of _add_op that overwrites a last entry with the same key.
_add_op_overwrite(list, op, name, args) ==
    /\ ops' = IF list # <<>> /\ list[Len(list)].key = op.key
                  THEN Append(SubSeq(list, 1, Len(list) - 1), op)
                  ELSE Append(list, op)
    /\ img' = get_image(ops', orient, TRUE)
    /\ log' = FoldLog(<<>>, ops')
    /\ last' = Call(name, args)
    /\ hist' = Append(hist, Call(name, args))
    /\ UNCHANGED orient

\* Photo._add_op: append, then make_thumbnails(replace=True, fast=True).
_add_op(list, op, name, args) ==
    /\ ops' = Append(list, op)
    /\ img' = get_image(ops', orient, TRUE)
    /\ log' = FoldLog(<<>>, ops')
    /\ last' = Call(name, args)
    /\ hist' = Append(hist, Call(name, args))
    /\ UNCHANGED orient

\* Variant of rotate that never pops.
rotate_pop_never(list) == list

\* Photo.rotate, first half: the list after "if last is a rotate: pop it".
rotate_pop(list) ==
    IF list # <<>> /\ list[Len(list)].key = Rotate
        THEN SubSeq(list, 1, Len(list) - 1) ELSE list

\* Variant of rotate that drops the popped entry's degrees.
rotate_degrees_dropped(list, degrees) == degrees

\* Photo.rotate, first half: degrees after "degrees += op['degrees']".
rotate_degrees(list, degrees) ==
    IF list # <<>> /\ list[Len(list)].key = Rotate
        THEN degrees + list[Len(list)].degrees ELSE degrees

rotate(degrees) ==
    /\ Len(hist) < MaxCalls
    /\ _add_op(rotate_pop(ops),
               [key |-> Rotate, degrees |-> rotate_degrees(ops, degrees) % 360],
               Rotate, <<degrees>>)

saturation(level) ==
    /\ Len(hist) < MaxCalls
    /\ _add_op(ops, [key |-> Saturation, level |-> level], Saturation, <<level>>)

contrast(level) ==
    /\ Len(hist) < MaxCalls
    /\ _add_op(ops, [key |-> Contrast, level |-> level], Contrast, <<level>>)

brightness(level) ==
    /\ Len(hist) < MaxCalls
    /\ _add_op(ops, [key |-> Brightness, level |-> level], Brightness, <<level>>)

crop(box) ==
    /\ Len(hist) < MaxCalls
    /\ _add_op(ops, [key |-> Crop, box |-> box], Crop, box)

autocontrast ==
    /\ Len(hist) < MaxCalls
    /\ _add_op(ops, [key |-> Autocontrast], Autocontrast, <<>>)

\* Photo.make_thumbnails / export: render the current list.
make_thumbnails(fast) ==
    /\ last.name # "get_image"
    /\ img' = get_image(ops, orient, fast)
    /\ log' = FoldLog(<<>>, ops)
    /\ last' = [name |-> "get_image", args |-> <<>>, fast |-> fast]
    /\ UNCHANGED <<ops, orient, hist>>

PipeNext ==
    \/ \E d \in Degrees : rotate(d)
    \/ \E l \in Levels : saturation(l)
    \/ \E l \in Levels : contrast(l)
    \/ \E l \in Levels : brightness(l)
    \/ \E b \in Boxes : crop(b)
    \/ autocontrast
    \/ \E f \in BOOLEAN : make_thumbnails(f)

\* A new photo: Photo.ops is meta.setdefault('ops', []).
PipeInit(lists) ==
    /\ ops \in lists
    /\ orient \in Orientations
    /\ img = <<>>
    /\ log = <<>>
    /\ last = [name |-> "init", args |-> <<>>, fast |-> FALSE]
    /\ hist = <<>>

PipeIdle == PipeInit({<<>>}) /\ orient = "none"

\* ------------------------------------------------- get_timestamp (metadata.py)

_TIMESTAMP_KEYS == <<"DateTimeOriginal", "CreateDate", "ModifyDate", "FileModifyDate">>
_TIMESTAMP_FORMATS == <<"YYYY-MM-DD HH:mm:ss", "YYYY:MM:DD HH:mm:ss">>

\* Timestamps are <<year, month, day, hour, minute, second>>.
Sentinel == <<1000, 1, 1, 0, 0, 0>>

\* A metadata string: the layout it is written in and the time it spells.
Str(layout, t) == [kind |-> "str", layout |-> layout, t |-> t]

MetaValues ==
    { None,
      Str("YYYY-MM-DD HH:mm:ss", <<2009, 1, 22, 10, 49, 0>>),
      Str("YYYY:MM:DD HH:mm:ss", <<2011, 6, 5, 23, 50, 7>>),
      Str("YYYY:MM:DD HH:mm:ss", <<2009, 1, 22, 10, 49, 0>>),
      Str("DD/MM/YYYY", <<2010, 3, 4, 0, 0, 0>>),
      Str("", <<>>) }

\* What os.path.getmtime(path) does: return the mtime, or raise.
PathStates ==
    { [kind |-> "file", mtime |-> <<2015, 7, 1, 12, 0, 0>>],
      [kind |-> "FileNotFoundError"],
      [kind |-> "PermissionError"],
      [kind |-> "NotADirectoryError"] }

Stamp(t) == [kind |-> "stamp", t |-> t]
Raise(exc) == [kind |-> "raise", exc |-> exc]

RECURSIVE ParseFormats(_, _, _)
\* arrow.get(stamp, [fmt, ...]): the first format that parses, else ParserError
\* (a ValueError).
ParseFormats(stamp, fmts, i) ==
    IF i > Len(fmts) THEN Raise("ValueError")
    ELSE IF stamp.layout = fmts[i] THEN Stamp(stamp.t)
    ELSE ParseFormats(stamp, fmts, i + 1)

arrow_get(stamp) == ParseFormats(stamp, _TIMESTAMP_FORMATS, 1)

RECURSIVE ScanKeys(_, _)
\* The loop over _TIMESTAMP_KEYS: return at the first value that parses.
ScanKeys(meta, i) ==
    IF i > Len(_TIMESTAMP_KEYS) THEN None
    ELSE LET stamp == meta[_TIMESTAMP_KEYS[i]] IN
         IF stamp # None /\ arrow_get(stamp).kind = "stamp"
             THEN arrow_get(stamp)
             ELSE ScanKeys(meta, i + 1)

\* "if meta:" is false for an empty mapping.
Truthy(meta) == \E k \in DOMAIN meta : meta[k] # None

\* try: return arrow.get(os.path.getmtime(path)); except FileNotFoundError: pass
MtimeOrSentinel(path) ==
    IF path.kind = "file" THEN Stamp(path.mtime)
    ELSE IF path.kind = "FileNotFoundError" THEN Stamp(Sentinel)
    ELSE Raise(path.kind)

get_timestamp(path, meta) ==
    LET found == IF Truthy(meta) THEN ScanKeys(meta, 1) ELSE None IN
    IF found # None THEN found ELSE MtimeOrSentinel(path)

TsKeys == {_TIMESTAMP_KEYS[i] : i \in 1..Len(_TIMESTAMP_KEYS)}

TsInit ==
    /\ ts_meta \in [TsKeys -> MetaValues]
    /\ ts_path \in PathStates
    /\ ts_ret = None

TsIdle ==
    /\ ts_meta = [k \in TsKeys |-> None]
    /\ ts_path = [kind |-> "FileNotFoundError"]
    /\ ts_ret = None

TsCall ==
    /\ ts_ret = None
    /\ ts_ret' = get_timestamp(ts_path, ts_meta)
    /\ UNCHANGED <<ts_meta, ts_path>>

\* ------------------------------------ Photo._crop_after_rotate (photos.py)

\* Rationals are <<numerator, denominator>> with a positive denominator.
Rat(n, d) == IF d < 0 THEN <<-n, -d>> ELSE <<n, d>>
RatSub(x, y) == <<x[1] * y[2] - y[1] * x[2], x[2] * y[2]>>
RatLeq(x, y) == x[1] * y[2] <= y[1] * x[2]
Abs(n) == IF n < 0 THEN -n ELSE n
\* Python's int() of a number: truncation toward zero.
PyInt(x) == IF x[1] >= 0 THEN x[1] \div x[2] ELSE -((-x[1]) \div x[2])

\* Angles with rational sine and cosine: sin = s / r, cos = c / r.
Angle(s, c, r) == [sin |-> s, cos |-> c, r |-> r]
Angles ==
    { Angle(0, 1, 1), Angle(1, 0, 1), Angle(0, -1, 1),
      Angle(3, 4, 5), Angle(4, 3, 5), Angle(-3, 4, 5), Angle(4, -3, 5),
      Angle(5, 12, 13), Angle(12, 5, 13), Angle(-12, -5, 13) }
Sides == {1, 2, 3, 4, 100}

_crop_after_rotate(width, height, angle) ==
    LET c == Abs(angle.cos)
        s == Abs(angle.sin)
        r == angle.r
        W == Rat(width * c + height * s, r)
        H == Rat(width * s + height * c, r)
        \* f = C * S / (S * S - C * C), the r * r of both sides cancelled
        fn == c * s
        fd == s * s - c * c
        a == Rat(fn * (width * s - height * c), fd * r)
        b == Rat(fn * (height * s - width * c), fd * r)
    IN IF fd = 0 THEN Raise("ZeroDivisionError")
       ELSE [kind |-> "box", a |-> a, b |-> b, W |-> W, H |-> H,
             box |-> <<PyInt(a), PyInt(b), PyInt(RatSub(W, a)), PyInt(RatSub(H, b))>>]

GeoInit ==
    /\ geo_in \in [width : Sides, height : Sides, angle : Angles]
    /\ geo_ret = None

GeoIdle ==
    /\ geo_in = [width |-> 1, height |-> 1, angle |-> Angle(0, 1, 1)]
    /\ geo_ret = None

GeoCall ==
    /\ geo_ret = None
    /\ geo_ret' = _crop_after_rotate(geo_in.width, geo_in.height, geo_in.angle)
    /\ UNCHANGED geo_in

\* ------------------- _round_to_most_significant_digits (metadata.py)

RECURSIVE Pow10(_)
Pow10(k) == IF k <= 0 THEN 1 ELSE 10 * Pow10(k - 1)

RECURSIVE NumDigits(_)
\* len(str(v)) of a non-negative int
NumDigits(v) == IF v < 10 THEN 1 ELSE 1 + NumDigits(v \div 10)

\* Python 3 round(n / d) for n >= 0, d > 0: to nearest, ties to even.
PyRound(n, d) ==
    LET q == n \div d
        twice == 2 * (n % d)
    IN IF twice < d THEN q
       ELSE IF twice > d THEN q + 1
       ELSE IF q % 2 = 0 THEN q ELSE q + 1

\* The forms n is passed in. A float is its integer part and the number of
\* digits str() prints after the point; a string is its leading digits (as a
\* value, none when v = -1) and the number of characters after them.
IntN(v) == [kind |-> "int", v |-> v]
FloatN(v, fd) == [kind |-> "float", v |-> v, fd |-> fd]
StrN(v, rest) == [kind |-> "str", v |-> v, rest |-> rest]

\* len(str(n))
StrLen(n) ==
    IF n.kind = "int" THEN NumDigits(n.v)
    ELSE IF n.kind = "float" THEN NumDigits(n.v) + 1 + n.fd
    ELSE (IF n.v < 0 THEN 0 ELSE NumDigits(n.v)) + n.rest

Value(v) == [kind |-> "value", v |-> v]

\* shift = 10 ** (len(str(n)) - digits)
RoundShift(n, digits) == Pow10(StrLen(n) - digits)

_round_to_most_significant_digits(n, digits) ==
    IF n.kind = "str" /\ n.v < 0 THEN Raise("ValueError")
    ELSE LET nint == n.v
             shift == RoundShift(n, digits)
         IN IF nint < Pow10(digits) THEN Value(nint)
            ELSE Value(shift * PyRound(nint, shift))

RoundValues == {0, 7, 9, 10, 23, 25, 35, 50, 95, 99, 100, 847, 850, 999, 1234}

RoundInputs ==
    {IntN(v) : v \in RoundValues}
        \cup {FloatN(v, fd) : v \in RoundValues, fd \in {1, 2}}
        \cup {StrN(v, rest) : v \in RoundValues, rest \in {0, 3}}
        \cup {StrN(-1, 3)}

RndInit ==
    /\ rnd_in \in [n : RoundInputs, digits : {1, 2}]
    /\ rnd_ret = None

RndIdle ==
    /\ rnd_in = [n |-> IntN(0), digits |-> 1]
    /\ rnd_ret = None

RndCall ==
    /\ rnd_ret = None
    /\ rnd_ret' = _round_to_most_significant_digits(rnd_in.n, rnd_in.digits)
    /\ UNCHANGED rnd_in

\* ------------------------------------------ gen_datetime_tags (metadata.py)

IsLeap(y) == (y % 4 = 0 /\ y % 100 # 0) \/ y % 400 = 0

DaysInMonth(y, m) ==
    IF m = 2 THEN (IF IsLeap(y) THEN 29 ELSE 28)
    ELSE IF m \in {4, 6, 9, 11} THEN 30 ELSE 31

\* Days from 0000-03-01 to the date (proleptic Gregorian).
DayNumber(y, m, d) ==
    LET yy == IF m <= 2 THEN y - 1 ELSE y
        mm == IF m <= 2 THEN m + 9 ELSE m - 3
    IN 365 * yy + yy \div 4 - yy \div 100 + yy \div 400 + (153 * mm + 2) \div 5 + d - 1

\* stamp.weekday(): Monday is 0. 1970-01-01 was a Thursday.
Weekday(t) == (DayNumber(t.year, t.month, t.day) - DayNumber(1970, 1, 1) + 3) % 7

\* stamp.shift(minutes=n), 0 <= n < 60: carry into hour, day, month, year.
Shift(t, n) ==
    LET mi == t.minute + n
        h == IF mi >= 60 THEN t.hour + 1 ELSE t.hour
        d == IF h >= 24 THEN t.day + 1 ELSE t.day
        mo == IF d > DaysInMonth(t.year, t.month) THEN t.month + 1 ELSE t.month
    IN [year |-> IF mo > 12 THEN t.year + 1 ELSE t.year,
        month |-> IF mo > 12 THEN 1 ELSE mo,
        day |-> IF d > DaysInMonth(t.year, t.month) THEN 1 ELSE d,
        hour |-> h % 24,
        minute |-> mi % 60,
        second |-> t.second]

MonthNames ==
    <<"january", "february", "march", "april", "may", "june", "july", "august",
      "september", "october", "november", "december">>
DayNames ==
    <<"monday", "tuesday", "wednesday", "thursday", "friday", "saturday", "sunday">>

\* stamp.format('Do'): 1st, 2nd, 3rd, 4th, 11th, 12th, 13th, 21st, 22nd
Ordinal(n) ==
    IF n % 100 \in {11, 12, 13} THEN <<n, "th">>
    ELSE IF n % 10 = 1 THEN <<n, "st">>
    ELSE IF n % 10 = 2 THEN <<n, "nd">>
    ELSE IF n % 10 = 3 THEN <<n, "rd">>
    ELSE <<n, "th">>

\* hour.format('ha'): the 12-hour clock hour and am/pm
HourLabel(h) ==
    <<IF h = 0 THEN 12 ELSE IF h > 12 THEN h - 12 ELSE h,
      IF h < 12 THEN "am" ELSE "pm">>

Tag(ns, num, label) == [ns |-> ns, num |-> num, label |-> label]

\* Variant with the 12-minute shift of Photo.datetime_tag_set.
HourStamp_12(stamp) == Shift(stamp, 12)

\* hour = stamp.shift(minutes=11)
HourStamp(stamp) == Shift(stamp, 11)

gen_datetime_tags(stamp) ==
    IF stamp = None THEN <<>>
    ELSE LET hour == HourStamp(stamp) IN
         << Tag("y", stamp.year, <<>>),
            Tag("m", stamp.month, <<MonthNames[stamp.month]>>),
            Tag("d", stamp.day, Ordinal(stamp.day)),
            Tag("w", Weekday(stamp), <<DayNames[Weekday(stamp) + 1]>>),
            Tag("h", hour.hour, HourLabel(hour.hour)) >>

Stamps ==
    { t \in [year : {2009, 2012}, month : {1, 2, 12}, day : {1, 13, 22, 28, 29, 31},
             hour : {0, 10, 11, 12, 23}, minute : {0, 48, 49, 59}, second : {0, 59}] :
        t.day <= DaysInMonth(t.year, t.month) }

DtInit ==
    /\ dt_stamp \in Stamps \cup {None}
    /\ dt_ret = None

DtIdle ==
    /\ dt_stamp = None
    /\ dt_ret = None

DtCall ==
    /\ dt_ret = None
    /\ dt_ret' = [kind |-> "tags", tags |-> gen_datetime_tags(dt_stamp)]
    /\ UNCHANGED dt_stamp

\* ------------- Photo.read_exif_tags (photos.py), gen_metadata_tags (metadata.py)

\* Metadata values as exiftool's JSON gives them: numbers (in tenths), strings
\* that spell a number with a unit, '1/n' fractions, and free text.
Num10(n10) == [kind |-> "num", n10 |-> n10]            \* 2.8 is Num10(28)
UnitStr(n10, fd) == [kind |-> "unitstr", n10 |-> n10, fd |-> fd]   \* '50.0 mm'
Frac(n) == [kind |-> "frac", n |-> n]                  \* '1/250'
PrefixedJunk(n10) == [kind |-> "prefixed", n10 |-> n10]    \* '2.8abc'
Junk == [kind |-> "junk"]                              \* text with no leading digit: 'bulb'
Words(ws) == [kind |-> "words", ws |-> ws]             \* 'Canon EOS Rebel T2i'

FNumbers == {None, Num10(28), Num10(40), Junk, PrefixedJunk(28)}
ISOs == {None, Num10(1000), Num10(16000), Junk}
ShutterSpeeds == {None, Num10(5), Frac(250), Junk}
FocalLengths == {None, UnitStr(500, 1), UnitStr(175, 1), Num10(500), Junk}
Models ==
    { None,
      Words(<<"Canon", "EOS", "Rebel", "T2i">>),
      Words(<<"NIKON", "D70">>),
      Words(<<"Canon", "PowerShot", "S5", "IS">>),
      Words(<<"KODAK", "DIGITAL", "CAMERA">>) }

Exifs ==
    [FNumber : FNumbers, ISO : ISOs, ShutterSpeed : ShutterSpeeds,
     FocalLength : FocalLengths, Model : Models]

LowerWord(w) ==
    CASE w = "Canon" -> "canon" [] w = "EOS" -> "eos" [] w = "Rebel" -> "rebel"
      [] w = "T2i" -> "t2i" [] w = "NIKON" -> "nikon" [] w = "D70" -> "d70"
      [] w = "PowerShot" -> "powershot" [] w = "S5" -> "s5" [] w = "IS" -> "is"
      [] w = "KODAK" -> "kodak" [] w = "DIGITAL" -> "digital"
      [] w = "CAMERA" -> "camera" [] OTHER -> w

_CAMERA_WORD_BLACKLIST ==
    {"canon", "nikon", "kodak", "digital", "camera", "super", "powershot"}

NotBlacklisted(w) == w \notin _CAMERA_WORD_BLACKLIST

\* The loop of re.sub(pattern, '', model).strip() over the blacklist and then
\* 'ed$' and 'is$', on the lowercased model name, word by word.
StripModel(ws) ==
    LET low == [i \in 1..Len(ws) |-> LowerWord(ws[i])]
        kept == SelectSeq(low, NotBlacklisted)
    IN IF kept # <<>> /\ kept[Len(kept)] \in {"ed", "is"}
           THEN SubSeq(kept, 1, Len(kept) - 1) ELSE kept

Tags(S) == [kind |-> "tags", tags |-> S]

\* highest() of read_exif_tags, on n = n10 / 10: the int below 10 ** digits, else
\* shift * round(n / shift) with shift = 10 ** (len(str(int(n))) - digits).
highest(n10, digits) ==
    IF n10 < 10 * Pow10(digits) THEN n10 \div 10
    ELSE LET shift == Pow10(NumDigits(n10 \div 10) - digits)
         IN shift * PyRound(n10, 10 * shift)

Max(x, y) == IF x >= y THEN x ELSE y

\* '{}'.format(h / 2) with '.0' removed: <<3>> is '3', <<3, 5>> is '3.5'.
Halves(h) == IF h % 2 = 0 THEN <<h \div 2>> ELSE <<h \div 2, 5>>
Tenths(t) == IF t % 10 = 0 THEN <<t \div 10>> ELSE <<t \div 10, t % 10>>

\* The five "if key in self.exif" blocks of read_exif_tags: the tags one block
\* adds, or the exception it raises.
ExifFNumber(v) ==
    IF v = None THEN Tags({})
    ELSE IF v.kind = "num" THEN Tags({Tag("f/", 0, Halves(PyRound(2 * v.n10, 10)))})
    ELSE Raise("ValueError")

ExifISO(v) ==
    IF v = None THEN Tags({})
    ELSE IF v.kind = "num"
        THEN LET iso == v.n10 \div 10
             IN Tags({Tag("iso:", highest(10 * iso, IF iso > 1000 THEN 2 ELSE 1), <<>>)})
    ELSE Raise("ValueError")

ExifShutterSpeed(s) ==
    IF s = None THEN Tags({})
    ELSE IF s.kind = "num"
        THEN Tags({Tag("ms", Max(1, highest(10 * (100 * s.n10), 1)), <<>>)})
    ELSE IF s.kind = "frac"
        THEN Tags({Tag("ms", Max(1, highest(10 * (1000 \div s.n), 1)), <<>>)})
    ELSE Raise("ValueError")

ExifFocalLength(v) ==
    IF v = None THEN Tags({})
    ELSE IF v.kind = "unitstr" THEN Tags({Tag("mm", highest(v.n10, 1), <<>>)})
    ELSE IF v.kind = "num" THEN Raise("TypeError")
    ELSE Raise("ValueError")

ExifModel(v) ==
    IF v = None \/ StripModel(v.ws) = <<>> THEN Tags({})
    ELSE Tags({Tag("kit:", 0, StripModel(v.ws))})

RECURSIVE RunBlocks(_, _, _)
\* The blocks in source order; an exception leaves the function with no tags.
RunBlocks(blocks, i, acc) ==
    IF i > Len(blocks) THEN Tags(acc)
    ELSE IF blocks[i].kind = "raise" THEN blocks[i]
    ELSE RunBlocks(blocks, i + 1, acc \cup blocks[i].tags)

read_exif_tags(x) ==
    IF \A k \in DOMAIN x : x[k] = None THEN Tags({})
    ELSE RunBlocks(<<ExifFNumber(x.FNumber), ExifISO(x.ISO),
                     ExifShutterSpeed(x.ShutterSpeed),
                     ExifFocalLength(x.FocalLength), ExifModel(x.Model)>>, 1, {})

\* gen_metadata_tags: CameraModelName / Model -> kit
MetaKit(v) ==
    IF v = None \/ (v.kind = "words" /\ StripModel(v.ws) = <<>>) THEN Tags({})
    ELSE IF v.kind = "words" THEN Tags({Tag("kit:", 0, StripModel(v.ws))})
    ELSE Raise("AttributeError")

\* gen_metadata_tags: FNumber -> aperture
MetaAperture(fstop) ==
    IF fstop = None \/ fstop.kind = "junk" THEN Tags({})
    ELSE IF fstop.kind = "num"
        THEN Tags({Tag("aperture:f/", 0, Tenths(PyRound(10 * fstop.n10, 10)))})
    ELSE Raise("ValueError")

\* gen_metadata_tags: FocalLengthIn35mmFormat / FocalLength -> focus
MetaFocus(mm) ==
    IF mm = None \/ mm.kind = "junk" THEN Tags({})
    ELSE LET n == IF mm.kind = "unitstr" THEN StrN(mm.n10 \div 10, 0)
                  ELSE FloatN(mm.n10 \div 10, 1)
             r == _round_to_most_significant_digits(n, 1)
         IN IF mm.kind = "num" /\ mm.n10 = 0 THEN Tags({})
            ELSE Tags({Tag("focus:mm", r.v, <<>>)})

RECURSIVE RunYields(_, _, _)
\* The yields in source order; an exception ends the generator after the tags
\* already yielded.
RunYields(blocks, i, acc) ==
    IF i > Len(blocks) THEN Tags(acc)
    ELSE IF blocks[i].kind = "raise"
        THEN [kind |-> "raise", exc |-> blocks[i].exc, tags |-> acc]
    ELSE RunYields(blocks, i + 1, acc \cup blocks[i].tags)

gen_metadata_tags(meta) ==
    IF \A k \in DOMAIN meta : meta[k] = None THEN Tags({})
    ELSE RunYields(<<MetaKit(meta.Model), MetaAperture(meta.FNumber),
                     MetaFocus(meta.FocalLength)>>, 1, {})

ExInit ==
    /\ exif \in Exifs
    /\ ex_ret = None

ExIdle ==
    /\ exif = [FNumber |-> None, ISO |-> None, ShutterSpeed |-> None,
               FocalLength |-> None, Model |-> None]
    /\ ex_ret = None

ExReadExifTags ==
    /\ ex_ret = None
    /\ ex_ret' = [fn |-> "read_exif_tags", ret |-> read_exif_tags(exif)]
    /\ UNCHANGED exif

ExGenMetadataTags ==
    /\ ex_ret = None
    /\ ex_ret' = [fn |-> "gen_metadata_tags", ret |-> gen_metadata_tags(exif)]
    /\ UNCHANGED exif

\* ------------------------ retag main (retag.py), Photo.create (photos.py)

\* A string is the sequence of its characters.
RawTags == { <<" ">>, <<" ", "a">>, <<"A", " ">>, <<"b">> }

\* os.path.basename(os.path.dirname(p.path)); empty for a path with no directory
DirNames == { <<>>, <<" ", "B">> }

\* str.lower()
LowerChar(c) == CASE c = "A" -> "a" [] c = "B" -> "b" [] OTHER -> c
Lower(t) == [i \in 1..Len(t) |-> LowerChar(t[i])]

RECURSIVE LStrip(_)
LStrip(t) == IF t # <<>> /\ Head(t) = " " THEN LStrip(Tail(t)) ELSE t

RECURSIVE RStrip(_)
RStrip(t) ==
    IF t # <<>> /\ t[Len(t)] = " " THEN RStrip(SubSeq(t, 1, Len(t) - 1)) ELSE t

\* str.strip()
Strip(t) == RStrip(LStrip(t))

\* Code points, for the order sorted() puts strings in.
Ord(c) == CASE c = " " -> 32 [] c = "A" -> 65 [] c = "B" -> 66
            [] c = "a" -> 97 [] c = "b" -> 98 [] OTHER -> 0

RECURSIVE StrLess(_, _)
StrLess(x, y) ==
    IF y = <<>> THEN FALSE
    ELSE IF x = <<>> THEN TRUE
    ELSE IF Head(x) # Head(y) THEN Ord(Head(x)) < Ord(Head(y))
    ELSE StrLess(Tail(x), Tail(y))

RECURSIVE Sorted(_)
\* sorted(S) of a set of strings
Sorted(S) ==
    IF S = {} THEN <<>>
    ELSE LET least == CHOOSE x \in S : \A y \in S \ {x} : StrLess(x, y)
         IN <<least>> \o Sorted(S \ {least})

Elems(list) == {list[i] : i \in 1..Len(list)}

NotBlank(t) == Strip(t) # <<>>

\* Variant of the list comprehension without lower().
StripLower_nolower(tags) ==
    LET kept == SelectSeq(tags, NotBlank)
    IN [i \in 1..Len(kept) |-> Strip(kept[i])]

\* tags = [t.strip().lower() for t in tags if t.strip()]
StripLower(tags) ==
    LET kept == SelectSeq(tags, NotBlank)
    IN [i \in 1..Len(kept) |-> Lower(Strip(kept[i]))]

\* retag main: the list comprehension, then sorted(set(tags))
NormalizeTags(tags) == Sorted(Elems(StripLower(tags)))

\* util.normalized_tag_set: trim, lowercase, drop empty strings, as a set.
normalized_tag_set(tags) == {Lower(Strip(t)) : t \in Elems(tags)} \ {<<>>}

\* Photo.user_tag_set
user_tag_set == normalized_tag_set(userTags)

AddLists == UNION {[1..n -> RawTags] : n \in 0..MaxAdd}

\* retag main, for one photo p.
retag(add, add_path_tag, dirname, replace) ==
    LET tags1 == IF add_path_tag THEN Append(add, dirname) ELSE add
        tags2 == IF replace THEN tags1 ELSE tags1 \o Sorted(user_tag_set)
    IN /\ user_tags' = NormalizeTags(tags2)
       /\ rt_last' = [fn |-> "retag", tags |-> tags2]
       /\ UNCHANGED userTags

\* Photo.create: userTags=sorted(util.normalized_tag_set(tags)), the tags being
\* those given plus the stripped non-blank directory names of the path.
create(tags, dirs) ==
    LET kept == SelectSeq(dirs, NotBlank)
        all == tags \o [i \in 1..Len(kept) |-> Strip(kept[i])]
    IN /\ userTags' = Sorted(normalized_tag_set(all))
       /\ user_tags' = <<>>
       /\ rt_last' = [fn |-> "create", tags |-> <<>>]

TagInit ==
    /\ userTags = <<>>
    /\ user_tags = <<>>
    /\ rt_last = [fn |-> "init", tags |-> <<>>]

TagIdle == TagInit

TagNext ==
    \/ \E add \in AddLists, d \in DirNames, replace \in BOOLEAN :
            retag(add, TRUE, d, replace)
    \/ \E add \in AddLists, replace \in BOOLEAN :
            retag(add, FALSE, <<>>, replace)
    \/ \E tags \in AddLists, d \in DirNames :
            create(tags, <<d>>)
    \/ \E tags \in AddLists :
            create(tags, <<>>)

\* ------------------------------------------------------- specifications

Next ==
    PipeNext /\ UNCHANGED <<tsVars, geoVars, rndVars, dtVars, exVars, tagVars>>

Init == PipeInit({<<>>}) /\ TsIdle /\ GeoIdle /\ RndIdle /\ DtIdle /\ ExIdle /\ TagIdle

Spec == Init /\ [][Next]_vars

\* A photo loaded from the store with a list already in it.
InitStored ==
    PipeInit(StoredOps) /\ TsIdle /\ GeoIdle /\ RndIdle /\ DtIdle /\ ExIdle /\ TagIdle

SpecStored == InitStored /\ [][Next]_vars

NextTimestamp ==
    TsCall /\ UNCHANGED <<pipeVars, geoVars, rndVars, dtVars, exVars, tagVars>>

InitTimestamp ==
    PipeIdle /\ TsInit /\ GeoIdle /\ RndIdle /\ DtIdle /\ ExIdle /\ TagIdle

SpecTimestamp == InitTimestamp /\ [][NextTimestamp]_vars

NextGeometry ==
    GeoCall /\ UNCHANGED <<pipeVars, tsVars, rndVars, dtVars, exVars, tagVars>>

InitGeometry ==
    PipeIdle /\ TsIdle /\ GeoInit /\ RndIdle /\ DtIdle /\ ExIdle /\ TagIdle

SpecGeometry == InitGeometry /\ [][NextGeometry]_vars

NextRound ==
    RndCall /\ UNCHANGED <<pipeVars, tsVars, geoVars, dtVars, exVars, tagVars>>

InitRound ==
    PipeIdle /\ TsIdle /\ GeoIdle /\ RndInit /\ DtIdle /\ ExIdle /\ TagIdle

SpecRound == InitRound /\ [][NextRound]_vars

NextDatetime ==
    DtCall /\ UNCHANGED <<pipeVars, tsVars, geoVars, rndVars, exVars, tagVars>>

InitDatetime ==
    PipeIdle /\ TsIdle /\ GeoIdle /\ RndIdle /\ DtInit /\ ExIdle /\ TagIdle

SpecDatetime == InitDatetime /\ [][NextDatetime]_vars

NextExif ==
    \/ ExReadExifTags
            /\ UNCHANGED <<pipeVars, tsVars, geoVars, rndVars, dtVars, tagVars>>
    \/ ExGenMetadataTags
            /\ UNCHANGED <<pipeVars, tsVars, geoVars, rndVars, dtVars, tagVars>>

InitExif ==
    PipeIdle /\ TsIdle /\ GeoIdle /\ RndIdle /\ DtIdle /\ ExInit /\ TagIdle

SpecExif == InitExif /\ [][NextExif]_vars

NextRetag ==
    TagNext /\ UNCHANGED <<pipeVars, tsVars, geoVars, rndVars, dtVars, exVars>>

InitRetag ==
    PipeIdle /\ TsIdle /\ GeoIdle /\ RndIdle /\ DtIdle /\ ExIdle /\ TagInit

SpecRetag == InitRetag /\ [][NextRetag]_vars

\* ------------------------------------------------------ pipeline claims

IsKnown(op) == op.key \in KnownKeys
IsUnknown(op) == op.key \notin KnownKeys

\* C1: starting from an empty list, no sequence of mutator calls leaves two
\* adjacent entries whose key is 'rotate'.
C1_NoAdjacentRotate ==
    \A i \in 1..(Len(ops) - 1) : ~(ops[i].key = Rotate /\ ops[i + 1].key = Rotate)

\* Three consecutive rotate calls left a single entry.
C1_Witness ==
    /\ Len(hist) = 3
    /\ \A i \in 1..3 : hist[i].name = Rotate
    /\ Len(ops) = 1

\* C2: rotate(d2) on a list ending in a rotate of d1 degrees keeps the length and
\* replaces the last entry by a rotate of (d1 + d2) mod 360; rotate(10) then
\* rotate(20) on the empty list gives the one-entry list that rotate(30) gives.
C2_RotateMerges ==
    /\ [][(/\ ops # <<>>
           /\ ops[Len(ops)].key = Rotate
           /\ Len(hist') = Len(hist) + 1
           /\ last'.name = Rotate)
          => (/\ Len(ops') = Len(ops)
              /\ ops'[Len(ops')] =
                    [key |-> Rotate,
                     degrees |-> (ops[Len(ops)].degrees + last'.args[1]) % 360]
              /\ SubSeq(ops', 1, Len(ops) - 1) = SubSeq(ops, 1, Len(ops) - 1))]_vars
    /\ [](hist = <<Call(Rotate, <<10>>), Call(Rotate, <<20>>)>>
            => ops = <<[key |-> Rotate, degrees |-> 30]>>)
    /\ [](hist = <<Call(Rotate, <<30>>)>>
            => ops = <<[key |-> Rotate, degrees |-> 30]>>)

C2_Witness ==
    /\ hist = <<Call(Rotate, <<10>>), Call(Rotate, <<20>>)>>
    /\ ops = <<[key |-> Rotate, degrees |-> 30]>>

\* C3: crop, brightness, contrast, saturation and autocontrast append exactly one
\* entry with their key, whatever the last entry is; every mutator, rotate
\* included, leaves the entries before the last one of the prior list in place.
C3_AppendOnly ==
    [][Len(hist') = Len(hist) + 1
       => /\ SubSeq(ops', 1, Len(ops) - 1) = SubSeq(ops, 1, Len(ops) - 1)
          /\ Len(ops') >= Len(ops)
          /\ last'.name # Rotate
                => /\ Len(ops') = Len(ops) + 1
                   /\ SubSeq(ops', 1, Len(ops)) = ops
                   /\ ops'[Len(ops')].key = last'.name]_vars

\* A mutator appended an entry behind one with the same key.
C3_Witness ==
    /\ Len(ops) >= 3
    /\ hist # <<>>
    /\ last.name = Brightness
    /\ ops[Len(ops) - 1].key = Brightness
    /\ ops[Len(ops)].key = Brightness

\* C4: an entry with an unrecognized key does not stop the render: it leaves the
\* image as it is, is logged, and the later entries are applied in list order, so
\* the image is the render of the list without the unrecognized entries.
C4_UnknownOpSkipped ==
    last.name # "init"
        => /\ img = get_image(SelectSeq(ops, IsKnown), orient, last.fast)
           /\ log = SelectSeq(ops, IsUnknown)

\* A rendered list with a recognized entry behind an unrecognized one.
C4_Witness ==
    /\ last.name # "init"
    /\ \E i, j \in 1..Len(ops) : i < j /\ IsUnknown(ops[i]) /\ IsKnown(ops[j])
    /\ log # <<>>

\* ------------------------------------------------------ timestamp claim

RECURSIVE FirstParsed(_, _)
\* The time of the first key, in priority order, whose value is present and is
\* written in one of the two accepted layouts.
FirstParsed(meta, i) ==
    IF i > 4 THEN None
    ELSE LET v == meta[_TIMESTAMP_KEYS[i]] IN
         IF v # None /\ v.layout \in {"YYYY-MM-DD HH:mm:ss", "YYYY:MM:DD HH:mm:ss"}
             THEN Stamp(v.t)
             ELSE FirstParsed(meta, i + 1)

\* C5: get_timestamp never fails: it returns the first parseable key's time, else
\* the file's mtime, else (mtime not available) the sentinel 1000-01-01T00:00:00.
C5_AlwaysATimestamp ==
    ts_ret # None
        => /\ ts_ret.kind = "stamp"
           /\ ts_ret = (IF FirstParsed(ts_meta, 1) # None THEN FirstParsed(ts_meta, 1)
                        ELSE IF ts_path.kind = "file" THEN Stamp(ts_path.mtime)
                        ELSE Stamp(Sentinel))

\* ------------------------------------------------------- geometry claim

Zero == <<0, 1>>

\* C6: for positive width and height and every angle where S*S # C*C, the computed
\* a and b satisfy 0 <= a <= W and 0 <= b <= H, non-square images included.
C6_CropInsideCanvas ==
    (geo_ret # None /\ geo_ret.kind = "box")
        => /\ RatLeq(Zero, geo_ret.a) /\ RatLeq(geo_ret.a, geo_ret.W)
           /\ RatLeq(Zero, geo_ret.b) /\ RatLeq(geo_ret.b, geo_ret.H)

\* ------------------------------------------------------- rounding claim

\* C7: for an int, a float or a string with a numeric prefix, highest(n, digits)
\* returns the integer value v unchanged when v has fewer than digits + 1 digits,
\* and otherwise v rounded to the nearest multiple of 10^(k - digits), k the
\* number of digits of v (23 -> 20, 847 -> 800, 7 -> 7, the same for 23.0, 847.0).
C7_RoundsIntegerValue ==
    (rnd_ret # None /\ rnd_in.n.v >= 0)
        => /\ rnd_ret.kind = "value"
           /\ LET v == rnd_in.n.v
                  k == NumDigits(v)
                  m == Pow10(k - rnd_in.digits)
              IN IF k < rnd_in.digits + 1 THEN rnd_ret.v = v
                 ELSE /\ rnd_ret.v % m = 0
                      /\ 2 * Abs(rnd_ret.v - v) <= m

\* ------------------------------------------------------- datetime claim

\* C8: the hour tag carries hour hh when mm <= 48 and (hh + 1) mod 24 when
\* mm >= 49 (10:48 -> h:10:10am, 10:49 -> h:11:11am, 23:49 -> hour 00); five tags
\* y, m, d, w, h are emitted for a present timestamp and none for an absent one.
C8_HourBoundaryAt49 ==
    dt_ret # None
        => IF dt_stamp = None THEN dt_ret.tags = <<>>
           ELSE LET tags == dt_ret.tags
                    hh == dt_stamp.hour
                    mm == dt_stamp.minute
                IN /\ Len(tags) = 5
                   /\ [i \in 1..5 |-> tags[i].ns] = <<"y", "m", "d", "w", "h">>
                   /\ tags[5].num = (IF mm <= 48 THEN hh ELSE (hh + 1) % 24)
                   /\ (hh = 10 /\ mm = 48) => tags[5] = Tag("h", 10, <<10, "am">>)
                   /\ (hh = 10 /\ mm = 49) => tags[5] = Tag("h", 11, <<11, "am">>)
                   /\ (hh = 23 /\ mm = 49) => tags[5].num = 0

\* 23:49 on the last day of a year was tagged with hour 00.
C8_Witness ==
    /\ dt_ret # None
    /\ dt_stamp # None
    /\ dt_stamp.hour = 23 /\ dt_stamp.minute = 49
    /\ dt_stamp.month = 12 /\ dt_stamp.day = 31
    /\ dt_ret.tags[5] = Tag("h", 0, <<12, "am">>)

\* ----------------------------------------------------- tagger claim

\* The facets a tagger derives, and the values of a facet it can parse.
FacetsOf(fn) ==
    IF fn = "read_exif_tags"
        THEN {"FNumber", "ISO", "ShutterSpeed", "FocalLength", "Model"}
        ELSE {"FNumber", "FocalLength", "Model"}

FacetTags(fn, facet, v) ==
    IF fn = "read_exif_tags"
        THEN (CASE facet = "FNumber" -> ExifFNumber(v)
                [] facet = "ISO" -> ExifISO(v)
                [] facet = "ShutterSpeed" -> ExifShutterSpeed(v)
                [] facet = "FocalLength" -> ExifFocalLength(v)
                [] OTHER -> ExifModel(v))
        ELSE (CASE facet = "FNumber" -> MetaAperture(v)
                [] facet = "FocalLength" -> MetaFocus(v)
                [] OTHER -> MetaKit(v))

\* C9: a facet whose value cannot be parsed does not abort the others: the tags
\* of every other facet present in the metadata are still produced, and a missing
\* facet key never raises.
C9_OtherFacetsStillTagged ==
    ex_ret # None
        => LET fn == ex_ret.fn
               parsed == {f \in FacetsOf(fn) : FacetTags(fn, f, exif[f]).kind = "tags"}
           IN /\ \A f \in parsed :
                    /\ "tags" \in DOMAIN ex_ret.ret
                    /\ FacetTags(fn, f, exif[f]).tags \subseteq ex_ret.ret.tags
              /\ (\A f \in FacetsOf(fn) : exif[f] = None \/ f \in parsed)
                    => ex_ret.ret.kind = "tags"

\* ------------------------------------------------- normalization claim

\* A stored tag collection in normal form: every entry trimmed, lowercased and
\* non-empty, and no entry twice.
IsNormalized(list) ==
    /\ \A i \in 1..Len(list) :
            /\ list[i] # <<>>
            /\ Strip(list[i]) = list[i]
            /\ Lower(list[i]) = list[i]
    /\ \A i, j \in 1..Len(list) : i # j => list[i] # list[j]

\* C10: the tag collection stored for a photo holds each raw tag trimmed and
\* lowercased, no empty string, and no entry twice (raw tags that differ only by
\* case or surrounding whitespace become one); normalizing it again changes nothing.
C10_TagsNormalized ==
    rt_last.fn = "retag"
        => /\ IsNormalized(user_tags)
           /\ Elems(user_tags) =
                {Lower(Strip(t)) : t \in {r \in Elems(rt_last.tags) : Strip(r) # <<>>}}
           /\ NormalizeTags(user_tags) = user_tags

\* Two raw tags that differ by case and whitespace, and an empty one, were stored
\* as one entry.
C10_Witness ==
    /\ rt_last.fn = "retag"
    /\ <<" ", "a">> \in Elems(rt_last.tags)
    /\ <<"A", " ">> \in Elems(rt_last.tags)
    /\ <<>> \in Elems(rt_last.tags)
    /\ user_tags = << <<"a">> >>

====
